---- MODULE Spec2Model ----
(***************************************************************************)
(* Model of the MolMIM example notebooks:                                   *)
(*   2-MolMIMInterpolation.ipynb   hidden states -> interpolation -> decode *)
(*   3-MolMIMGeneration.ipynb      tanimoto_similarity, the two sweeps      *)
(* Each notebook is a sequence of code cells run top to bottom; a cell that *)
(* raises stops the run.  The remote service is the environment: every      *)
(* reply is a nondeterministic choice.                                      *)
(***************************************************************************)
EXTENDS Integers, Sequences, FiniteSets, TLC

(***************************************************************************)
(* Bounds of the model.                                                     *)
(***************************************************************************)
\* precision (significand bits) of the scaled-down binary floating point
MantBits == 3
\* the smallest float is 2^-FracBits; every float is an integer count of it
FracBits == 4
\* dimension of a hidden-state vector
HiddenDim == 2
\* largest interpolation count n_interp tried
MaxInterp == 4
\* longest SMILES list handed to the deduplication
MaxDecoded == 5
\* largest number of parameter values of a sweep
MaxParams == 2

(***************************************************************************)
(* Floating point.  Python floats and numpy float64 are IEEE-754 binary     *)
(* numbers: every operation returns the exact result rounded to the         *)
(* nearest representable number, ties to the even significand.  The model   *)
(* keeps that rule with a significand of MantBits bits and gradual          *)
(* underflow; a float is written as its integer count of 2^-FracBits.       *)
(***************************************************************************)
RECURSIVE Pow2(_)
Pow2(k) == IF k <= 0 THEN 1 ELSE 2 * Pow2(k - 1)

\* the float 1.0
One == Pow2(FracBits)

RECURSIVE Spacing(_, _, _)
\* distance between neighbouring floats around num/den >= 0
Spacing(num, den, s) ==
    IF num < Pow2(MantBits) * s * den THEN s ELSE Spacing(num, den, 2 * s)

\* num/den >= 0 rounded to the nearest float, ties to even
RoundMagnitude(num, den) ==
    LET s  == Spacing(num, den, 1)
        d  == den * s
        m  == num \div d
        r  == num % d
        up == (2 * r > d) \/ (2 * r = d /\ m % 2 = 1)
    IN  (IF up THEN m + 1 ELSE m) * s

\* the rational num/den (den # 0) rounded to the nearest float
Round(num, den) ==
    LET n == IF den < 0 THEN -num ELSE num
        d == IF den < 0 THEN -den ELSE den
    IN  IF n < 0 THEN -RoundMagnitude(-n, d) ELSE RoundMagnitude(n, d)

FAdd(x, y) == Round(x + y, 1)
FSub(x, y) == Round(x - y, 1)
FMul(x, y) == Round(x * y, One)
\* x / y for floats x, y with y # 0
FDiv(x, y) == Round(x * One, y)
\* Python int / int (true division) for b # 0
IntTrueDiv(a, b) == Round(a * One, b)


(***************************************************************************)
(* State.                                                                   *)
(***************************************************************************)
VARIABLES
    \* 2-MolMIMInterpolation.ipynb
    cell,                       \* the next cell (or loop position) to run
    error,                      \* the exception that stopped the run, or "none"
    posts,                      \* every POST issued so far, in order
    n_interp,                   \* the configured interpolation count
    hiddens_array,              \* the squeezed hidden states
    hiddens_ndim,               \* hiddens_array.ndim: its number of axes
    row1, row2,                 \* the interpolation end points
    i,                          \* the next value of the loop variable
    interpolated_rows,
    interpolated_hiddens,
    interpolated_hiddens_json,
    molecules,
    legends,
    grid,                       \* what Draw.MolsToGridImage was given
    \* list(dict.fromkeys(...)) on its own
    generated,
    deduplicated,
    dedup_done,
    \* 3-MolMIMGeneration.ipynb
    radii,                      \* the radii of the sampling sweep
    min_sims,                   \* the thresholds of the guided sweep
    sweep,                      \* the sweep being run: "sampling" or "guided"
    next_param,                 \* position of the loop in radii / min_sims
    response,                   \* the last response received
    results,                    \* the dict of records, in insertion order
    df,                         \* the table built from results
    \* tanimoto_similarity on its own
    smiles_arg,
    reference_arg,
    returned,
    called,
    \* 1-ClusterMolMIMEmbeddings.ipynb
    embeddings,                 \* the list under the key "embeddings"
    embedding_df,               \* pd.DataFrame(embeddings)
    clustermap                  \* what sns.clustermap was given

interp_vars   == <<cell, error, posts, n_interp, hiddens_array, hiddens_ndim, row1, row2, i,
                   interpolated_rows, interpolated_hiddens,
                   interpolated_hiddens_json, molecules, legends, grid>>
dedup_vars    == <<generated, deduplicated, dedup_done>>
sweep_vars    == <<radii, min_sims, sweep, next_param, response, results, df>>
tanimoto_vars == <<smiles_arg, reference_arg, returned, called>>
embed_vars    == <<embeddings, embedding_df, clustermap>>
vars          == <<interp_vars, dedup_vars, sweep_vars, tanimoto_vars, embed_vars>>

(***************************************************************************)
(* The service as the client sees it.                                       *)
(***************************************************************************)
\* requests.post raised: no response object exists
Refused == [transport |-> "refused", status |-> 0, is_json |-> FALSE,
            key |-> "none", value |-> <<>>]
\* a response whose body is not JSON
NotJson(s) == [transport |-> "ok", status |-> s, is_json |-> FALSE,
               key |-> "none", value |-> <<>>]
\* a response whose body is the JSON object {k: v}
Json(s, k, v) == [transport |-> "ok", status |-> s, is_json |-> TRUE,
                  key |-> k, value |-> v]
\* the replies that carry no usable payload
Failures == {Refused, NotJson(200), NotJson(500),
             Json(200, "detail", <<>>), Json(500, "detail", <<>>)}

\* headers of notebooks 1 and 2
headers == {<<"accept", "application/json">>,
            <<"Content-Type", "application/json">>}

(***************************************************************************)
(* 2-MolMIMInterpolation.ipynb                                              *)
(***************************************************************************)
momelotinib == "N#CCNC(=O)c1ccc(-c2ccnc(Nc3ccc(N4CCOCC4)cc3)n2)cc1"
gandotinib  == "Cc1cc(Nc2cc(CN3CCOCC3)c3nc(C)c(Cc4ccc(Cl)cc4F)n3n2)n[nH]1"

\* components a hidden-state vector is built from
Components == {-One, 0, (One \div 2) - 1, One + (One \div 2)}
Vectors    == [1..HiddenDim -> Components]

\* np.squeeze of a (rows, 1, dim) array: the singleton axes go
Squeeze(h) ==
    IF Len(h) = 1 THEN h[1][1] ELSE [r \in 1..Len(h) |-> h[r][1]]

\* the number of axes np.squeeze leaves, for dim >= 2: (dim,) for one row,
\* (0,) for np.array([]), (rows, dim) otherwise
SqueezedNdim(h) == IF Len(h) >= 2 THEN 2 ELSE 1

\* a faulty variant of Fraction: the count itself as the divisor
FractionOverCount(j, n) == IntTrueDiv(j, n)

\* t = i / (n_interp - 1), for n_interp # 1
Fraction(j, n) == IntTrueDiv(j, n - 1)

\* a faulty variant of InterpolatedRow: the two weights exchanged
InterpolatedRowSwapped(t, a, b) ==
    [k \in 1..Len(a) |-> FAdd(FMul(t, a[k]), FMul(FSub(One, t), b[k]))]

\* (1 - t) * row1 + t * row2 when row1 and row2 are numbers
InterpolatedScalar(t, a, b) == FAdd(FMul(FSub(One, t), a), FMul(t, b))

\* (1 - t) * row1 + t * row2, componentwise
InterpolatedRow(t, a, b) ==
    [k \in 1..Len(a) |-> FAdd(FMul(FSub(One, t), a[k]), FMul(t, b[k]))]

\* a faulty variant of ExpandDims: the new axis goes in front
ExpandDimsInFront(rows) == <<rows>>

\* np.expand_dims(np.array(rows), axis=1)
ExpandDims(rows) == [r \in 1..Len(rows) |-> <<rows[r]>>]

\* [[True] for i in range(n)]
Mask(n) == [r \in 1..(IF n < 0 THEN 0 ELSE n) |-> <<TRUE>>]

RECURSIVE FromKeys(_, _)
\* dict.fromkeys(s): the keys of the dict, in insertion order
FromKeys(s, keys) ==
    IF s = <<>> THEN keys
    ELSE FromKeys(Tail(s),
                  IF \E j \in 1..Len(keys) : keys[j] = Head(s)
                  THEN keys ELSE Append(keys, Head(s)))

RECURSIVE KeepLast(_)
\* a faulty variant of Dedup: a string stays where it occurs last
KeepLast(s) ==
    IF s = <<>> THEN <<>>
    ELSE IF \E j \in 2..Len(s) : s[j] = Head(s)
         THEN KeepLast(Tail(s)) ELSE <<Head(s)>> \o KeepLast(Tail(s))

\* list(dict.fromkeys(s))
Dedup(s) == FromKeys(s, <<>>)

\* a faulty variant of Legends: the interior legends are numbered from 0
LegendsFromZero(n) ==
    <<"momelotinib">> \o [j \in 1..n |-> <<"Interpolated Molecule #", j - 1>>]
                     \o <<"gandotinib">>

\* the legends of the molecule grid
Legends(n) ==
    <<"momelotinib">> \o [j \in 1..n |-> <<"Interpolated Molecule #", j>>]
                     \o <<"gandotinib">>

Fail(e) == /\ cell' = "failed"
           /\ error' = e

\* the vector of zeros
Zeros == [k \in 1..HiddenDim |-> 0]

\* replies of POST /hidden: hidden states of two sequences, and of none,
\* one and three
HiddenReplies ==
    Failures
    \cup {Json(200, "hiddens", <<<<a>>, <<b>>>>) : a \in Vectors, b \in Vectors}
    \cup {Json(200, "hiddens", <<>>)}
    \cup {Json(200, "hiddens", <<<<a>>>>) : a \in Vectors}
    \cup {Json(200, "hiddens", <<<<a>>, <<Zeros>>, <<a>>>>) : a \in Vectors}

\* cell 3: POST /hidden, response.json(), ["hiddens"], squeeze, rows 0 and 1
HiddenCell ==
    /\ cell = "hidden"
    /\ \E reply \in HiddenReplies :
        /\ posts' = Append(posts, [url |-> "/hidden", headers |-> headers,
                                   data |-> [sequences |-> <<momelotinib, gandotinib>>],
                                   reply |-> reply])
        /\ IF reply.transport # "ok" THEN
               /\ Fail("ConnectionError")
               /\ UNCHANGED <<hiddens_array, hiddens_ndim, row1, row2>>
           ELSE IF ~reply.is_json THEN
               /\ Fail("JSONDecodeError")
               /\ UNCHANGED <<hiddens_array, hiddens_ndim, row1, row2>>
           ELSE IF reply.key # "hiddens" THEN
               /\ Fail("KeyError")
               /\ UNCHANGED <<hiddens_array, hiddens_ndim, row1, row2>>
           ELSE IF Len(Squeeze(reply.value)) < 2 THEN
               /\ hiddens_array' = Squeeze(reply.value)
               /\ hiddens_ndim' = SqueezedNdim(reply.value)
               /\ row1' = IF Len(hiddens_array') = 1 THEN hiddens_array'[1] ELSE row1
               /\ UNCHANGED row2
               /\ Fail("IndexError")
           ELSE
               /\ hiddens_array' = Squeeze(reply.value)
               /\ hiddens_ndim' = SqueezedNdim(reply.value)
               /\ row1' = hiddens_array'[1]
               /\ row2' = hiddens_array'[2]
               /\ cell' = "interpolate"
               /\ UNCHANGED error
    /\ UNCHANGED <<n_interp, i, interpolated_rows, interpolated_hiddens,
                   interpolated_hiddens_json, molecules, legends, grid>>
    /\ UNCHANGED <<dedup_vars, sweep_vars, tanimoto_vars, embed_vars>>

\* cell 4, first lines: interpolated_rows = [] and the loop is entered
InterpolateCell ==
    /\ cell = "interpolate"
    /\ interpolated_rows' = <<>>
    /\ i' = 0
    /\ cell' = "loop"
    /\ UNCHANGED <<error, posts, n_interp, hiddens_array, hiddens_ndim, row1, row2,
                   interpolated_hiddens, interpolated_hiddens_json,
                   molecules, legends, grid>>
    /\ UNCHANGED <<dedup_vars, sweep_vars, tanimoto_vars, embed_vars>>

\* one pass of the body of: for i in range(n_interp)
LoopBody ==
    /\ cell = "loop"
    /\ i < n_interp
    /\ IF n_interp - 1 = 0 THEN
           /\ Fail("ZeroDivisionError")
           /\ UNCHANGED <<i, interpolated_rows>>
       ELSE
           /\ interpolated_rows' =
                  Append(interpolated_rows,
                         IF hiddens_ndim = 1
                         THEN InterpolatedScalar(Fraction(i, n_interp), row1, row2)
                         ELSE InterpolatedRow(Fraction(i, n_interp), row1, row2))
           /\ i' = i + 1
           /\ UNCHANGED <<cell, error>>
    /\ UNCHANGED <<posts, n_interp, hiddens_array, hiddens_ndim, row1, row2,
                   interpolated_hiddens, interpolated_hiddens_json,
                   molecules, legends, grid>>
    /\ UNCHANGED <<dedup_vars, sweep_vars, tanimoto_vars, embed_vars>>

\* cell 4, after the loop: the rows become a (n, 1, dim) array
LoopExit ==
    /\ cell = "loop"
    /\ i >= n_interp
    /\ interpolated_hiddens' = ExpandDims(interpolated_rows)
    /\ cell' = "decode"
    /\ UNCHANGED <<error, posts, n_interp, hiddens_array, hiddens_ndim, row1, row2, i,
                   interpolated_rows, interpolated_hiddens_json,
                   molecules, legends, grid>>
    /\ UNCHANGED <<dedup_vars, sweep_vars, tanimoto_vars, embed_vars>>

\* replies of POST /decode
DecodeReplies ==
    Failures \cup
    {Json(200, "generated", g) :
        g \in {<<>>,
               <<momelotinib, "CCO", "CCO", gandotinib>>,
               <<"CCO", "CCN", "CCO", "CCC", "CCN">>}}

\* cell 5: package, POST /decode, deduplicate, add the end points, legends
DecodeCell ==
    /\ cell = "decode"
    /\ interpolated_hiddens_json' =
           [hiddens |-> interpolated_hiddens, mask |-> Mask(n_interp)]
    /\ \E reply \in DecodeReplies :
        /\ posts' = Append(posts, [url |-> "/decode", headers |-> headers,
                                   data |-> interpolated_hiddens_json',
                                   reply |-> reply])
        /\ IF reply.transport # "ok" THEN
               /\ Fail("ConnectionError")
               /\ UNCHANGED <<molecules, legends>>
           ELSE IF ~reply.is_json THEN
               /\ Fail("JSONDecodeError")
               /\ UNCHANGED <<molecules, legends>>
           ELSE IF reply.key # "generated" THEN
               /\ Fail("KeyError")
               /\ UNCHANGED <<molecules, legends>>
           ELSE
               /\ molecules' = <<momelotinib>> \o Dedup(reply.value) \o <<gandotinib>>
               /\ legends' = Legends(Len(molecules') - 2)
               /\ cell' = "draw"
               /\ UNCHANGED error
    /\ UNCHANGED <<n_interp, hiddens_array, hiddens_ndim, row1, row2, i, interpolated_rows,
                   interpolated_hiddens, grid>>
    /\ UNCHANGED <<dedup_vars, sweep_vars, tanimoto_vars, embed_vars>>

\* cell 6: Draw.MolsToGridImage(molecules, legends=legends)
DrawCell ==
    /\ cell = "draw"
    /\ grid' = [mols |-> molecules, legends |-> legends]
    /\ cell' = "done"
    /\ UNCHANGED <<error, posts, n_interp, hiddens_array, hiddens_ndim, row1, row2, i,
                   interpolated_rows, interpolated_hiddens,
                   interpolated_hiddens_json, molecules, legends>>
    /\ UNCHANGED <<dedup_vars, sweep_vars, tanimoto_vars, embed_vars>>

(***************************************************************************)
(* list(dict.fromkeys(generated)) applied to any decoded list.              *)
(***************************************************************************)
DecodedAlphabet == {"CCO", "CCN", "CCC"}
DecodedLists == UNION {[1..n -> DecodedAlphabet] : n \in 0..MaxDecoded}

Deduplicate ==
    /\ ~dedup_done
    /\ deduplicated' = Dedup(generated)
    /\ dedup_done' = TRUE
    /\ UNCHANGED generated
    /\ UNCHANGED <<interp_vars, sweep_vars, tanimoto_vars, embed_vars>>

(***************************************************************************)
(* 3-MolMIMGeneration.ipynb: the cheminformatics toolkit.                   *)
(***************************************************************************)
upadacitinib == "CCC1CN(CC1C2=CN=C3N2C4=C(NC=C4)N=C3)C(=O)NCC(F)(F)F"

\* the strings the toolkit is asked about
ParseableSmiles   == {upadacitinib, "CCO", "CCN", "CC(=O)O", "c1ccccc1"}
UnparseableSmiles == {"C1CC", "C(", "xyz"}
Smiles            == ParseableSmiles \cup UnparseableSmiles

\* Chem.MolFromSmiles(s) is not None
Parses(s) == s \in ParseableSmiles

\* identifiers of the atom environments of s of exactly radius r
Environments(s, r) ==
    CASE s = upadacitinib -> (IF r = 0 THEN {1, 2, 3, 4} ELSE IF r = 1 THEN {11, 12, 13} ELSE {20 + r, 2068 + r})
      [] s = "CCO"        -> (IF r = 0 THEN {1, 5} ELSE IF r = 1 THEN {11, 14} ELSE {})
      [] s = "CCN"        -> (IF r = 0 THEN {1, 2} ELSE IF r = 1 THEN {11, 15} ELSE {})
      [] s = "CC(=O)O"    -> (IF r = 0 THEN {1, 5, 6} ELSE IF r = 1 THEN {16, 17} ELSE {})
      [] s = "c1ccccc1"   -> (IF r = 0 THEN {3} ELSE IF r = 1 THEN {13} ELSE {20 + r})
      [] OTHER            -> {}

\* GetMorganFingerprintAsBitVect(mol, radius, nBits): the bits that are on
MorganFingerprint(s, radius, nBits) ==
    {e % nBits : e \in UNION {Environments(s, r) : r \in 0..radius}}

\* DataStructs.TanimotoSimilarity of two bit vectors
TanimotoCoefficient(x, y) ==
    IF Cardinality(x \cup y) = 0 THEN One
    ELSE IntTrueDiv(Cardinality(x \cap y), Cardinality(x \cup y))

\* rdkit.Chem.QED.qed(mol) of a parsed molecule
Qed(s) ==
    CASE s = upadacitinib -> Round(One + 2, 2)
      [] s = "CCO"        -> Round(One + 8, 4)
      [] s = "CCN"        -> Round(One + 12, 4)
      [] s = "CC(=O)O"    -> Round(One - 2, 2)
      [] OTHER            -> Round(One - 6, 2)

fingerprint_radius_param == 2
fingerprint_nbits == 2048

Return(v) == [raised |-> "none", value |-> v]
Raise(e)  == [raised |-> e, value |-> 0]

\* a faulty variant of tanimoto_similarity: the candidate is fingerprinted unchecked
tanimoto_similarity_unchecked(smiles, reference) ==
    IF ~Parses(reference) \/ ~Parses(smiles) THEN Raise("ArgumentError")
    ELSE Return(TanimotoCoefficient(
             MorganFingerprint(smiles, fingerprint_radius_param, fingerprint_nbits),
             MorganFingerprint(reference, fingerprint_radius_param, fingerprint_nbits)))

\* a faulty variant of tanimoto_similarity: the candidate gets a wider radius
tanimoto_similarity_wider_candidate(smiles, reference) ==
    IF ~Parses(reference) THEN Raise("ArgumentError")
    ELSE IF ~Parses(smiles) THEN Return(0)
    ELSE Return(TanimotoCoefficient(
             MorganFingerprint(smiles, fingerprint_radius_param + 1, fingerprint_nbits),
             MorganFingerprint(reference, fingerprint_radius_param, fingerprint_nbits)))

\* def tanimoto_similarity(smiles, reference)
tanimoto_similarity(smiles, reference) ==
    IF ~Parses(reference) THEN Raise("ArgumentError")
    ELSE IF ~Parses(smiles) THEN Return(0)
    ELSE Return(TanimotoCoefficient(
             MorganFingerprint(smiles, fingerprint_radius_param, fingerprint_nbits),
             MorganFingerprint(reference, fingerprint_radius_param, fingerprint_nbits)))

\* one call of tanimoto_similarity
CallTanimoto ==
    /\ ~called
    /\ returned' = tanimoto_similarity(smiles_arg, reference_arg)
    /\ called' = TRUE
    /\ UNCHANGED <<smiles_arg, reference_arg>>
    /\ UNCHANGED <<interp_vars, dedup_vars, sweep_vars, embed_vars>>

(***************************************************************************)
(* 3-MolMIMGeneration.ipynb: the two sweeps.                                *)
(***************************************************************************)
\* a parameter value is one of MaxParams distinct floats
ParamValues == 1..MaxParams
\* the sequences of distinct parameter values
ParamLists ==
    {p \in UNION {[1..n -> ParamValues] : n \in 0..MaxParams} :
        \A a, b \in 1..Len(p) : a # b => p[a] # p[b]}

\* headers of notebook 3
sweep_headers == {<<"Content-Type", "application/json">>}

\* the header the HTTP library sends when the caller names no Accept header
default_headers == {<<"accept", "*/*">>}

\* the headers of the request as sent: the caller's, then the defaults
SentHeaders(h) ==
    h \cup {d \in default_headers : \A x \in h : x[1] # d[1]}

\* a float, or the missing value nan
Float(x) == [nan |-> FALSE, val |-> x]
NaN      == [nan |-> TRUE, val |-> 0]

RECURSIVE Total(_)
\* the running float sum of a list
Total(xs) == IF xs = <<>> THEN 0 ELSE FAdd(Total(SubSeq(xs, 1, Len(xs) - 1)), xs[Len(xs)])

\* a faulty variant of Mean: an empty list averages to zero
MeanZeroOnEmpty(xs) ==
    IF xs = <<>> THEN Float(0) ELSE Float(FDiv(Total(xs), Len(xs) * One))

\* np.mean(xs): nan (and a warning) for the empty list
Mean(xs) ==
    IF xs = <<>> THEN NaN ELSE Float(FDiv(Total(xs), Len(xs) * One))

\* a faulty variant of valid_smiles: nothing is filtered out
all_smiles(generated_molecules) == generated_molecules

\* [m for m in generated_molecules if Chem.MolFromSmiles(m) is not None]
valid_smiles(generated_molecules) == SelectSeq(generated_molecules, Parses)

RECURSIVE Scores(_, _)
\* the scoring loop: for smile in valid_smiles: mol = ...; if mol: append
\* what is "tanimoto" or "qed"; a raised exception ends the loop
Scores(smiles, what) ==
    IF smiles = <<>> THEN Return(<<>>)
    ELSE LET smile == smiles[Len(smiles)]
             sofar == Scores(SubSeq(smiles, 1, Len(smiles) - 1), what)
             t     == tanimoto_similarity(smile, upadacitinib)
         IN  IF sofar.raised # "none" THEN sofar
             ELSE IF ~Parses(smile) THEN sofar
             ELSE IF t.raised # "none" THEN t
             ELSE Return(Append(sofar.value,
                                IF what = "tanimoto" THEN t.value ELSE Qed(smile)))

RECURSIVE ScoresWithZeros(_, _)
\* the scoring loop without its guards: an unparseable string scores 0
ScoresWithZeros(smiles, what) ==
    IF smiles = <<>> THEN <<>>
    ELSE Append(ScoresWithZeros(SubSeq(smiles, 1, Len(smiles) - 1), what),
                LET smile == smiles[Len(smiles)]
                IN  IF ~Parses(smile) THEN 0
                    ELSE IF what = "tanimoto"
                         THEN tanimoto_similarity(smile, upadacitinib).value
                         ELSE Qed(smile))

\* a faulty variant of IterationRecord: every generated string is scored
IterationRecordUnfiltered(generated_molecules) ==
    [tanimoto_similarity |-> Mean(ScoresWithZeros(generated_molecules, "tanimoto")),
     qed_score           |-> Mean(ScoresWithZeros(generated_molecules, "qed")),
     valid_smiles        |-> Len(valid_smiles(generated_molecules))]

\* radius_results / min_sim_results at the end of the loop body
IterationRecord(generated_molecules) ==
    [tanimoto_similarity |->
         Mean(Scores(valid_smiles(generated_molecules), "tanimoto").value),
     qed_score           |->
         Mean(Scores(valid_smiles(generated_molecules), "qed").value),
     valid_smiles        |-> Len(valid_smiles(generated_molecules))]

\* a faulty variant of DictSet: the record is not stored
DictSetDropped(d, key, value) == d

\* a faulty variant of DictSet: the new record overwrites the stored ones
DictSetClobbering(d, key, value) ==
    Append([j \in 1..Len(d) |-> [key |-> d[j].key, value |-> value]],
           [key |-> key, value |-> value])

\* results[key] = value on a dict kept as its items in insertion order
DictSet(d, key, value) ==
    IF \E j \in 1..Len(d) : d[j].key = key
    THEN [j \in 1..Len(d) |-> IF d[j].key = key THEN [key |-> key, value |-> value] ELSE d[j]]
    ELSE Append(d, [key |-> key, value |-> value])

\* one row of the table
Row(item) ==
    [index               |-> item.key,
     tanimoto_similarity |-> item.value.tanimoto_similarity,
     qed_score           |-> item.value.qed_score,
     valid_smiles        |-> item.value.valid_smiles]

RECURSIVE SortedByKey(_)
\* the items of a dict in ascending key order
SortedByKey(d) ==
    IF d = <<>> THEN <<>>
    ELSE LET m == CHOOSE j \in 1..Len(d) : \A l \in 1..Len(d) : d[j].key <= d[l].key
         IN  <<d[m]>> \o SortedByKey(SubSeq(d, 1, m - 1) \o SubSeq(d, m + 1, Len(d)))

\* a faulty variant of DataFrameT: the rows sorted by parameter value
DataFrameSorted(d) == [j \in 1..Len(d) |-> Row(SortedByKey(d)[j])]

\* pd.DataFrame(results).T.reset_index(): one row per key, in dict order
DataFrameT(d) == [j \in 1..Len(d) |-> Row(d[j])]

\* the SMILES lists the service answers with
GeneratedLists ==
    {<<"C1CC", "xyz">>, <<"CCO", "C(", "c1ccccc1">>, <<"CCN", "CCN">>}

\* replies of POST /sampling: one list per input sequence
SamplingReplies ==
    Failures \cup {Json(200, "generated", <<g>>) : g \in GeneratedLists}

\* replies of POST /generate: a list of {"smiles": ...} objects
GenerateReplies ==
    Failures \cup
    {Json(200, "generated", [j \in 1..Len(g) |-> [smiles |-> g[j]]]) : g \in GeneratedLists}

\* the parameter values of the sweep being run
Params == IF sweep = "sampling" THEN radii ELSE min_sims

\* the request body of one iteration
RequestData(param) ==
    IF sweep = "sampling"
    THEN [url  |-> "/sampling",
          data |-> [sequences |-> <<upadacitinib>>, num_molecules |-> 10,
                    scaled_radius |-> param]]
    ELSE [url  |-> "/generate",
          data |-> [smi |-> upadacitinib, algorithm |-> "CMA-ES",
                    num_molecules |-> 10, property_name |-> "QED",
                    minimize |-> FALSE, min_similarity |-> param,
                    particles |-> 20, iterations |-> 3]]

\* generated_molecules out of the parsed response
GeneratedMolecules(value) ==
    IF sweep = "sampling" THEN value[1]
    ELSE [j \in 1..Len(value) |-> value[j].smiles]

\* a faulty variant of SweepPost: a refused call is made again
SweepPostRetrying ==
    /\ cell = "post"
    /\ next_param <= Len(Params)
    /\ \E reply \in (IF sweep = "sampling" THEN SamplingReplies ELSE GenerateReplies) :
        /\ posts' = Append(posts, [url     |-> RequestData(Params[next_param]).url,
                                   headers |-> sweep_headers,
                                   data    |-> RequestData(Params[next_param]).data,
                                   reply   |-> reply])
        /\ IF reply.transport # "ok" THEN
               /\ UNCHANGED <<cell, error, response>>
           ELSE
               /\ response' = reply
               /\ cell' = "handle"
               /\ UNCHANGED error
    /\ UNCHANGED <<radii, min_sims, sweep, next_param, results, df>>
    /\ UNCHANGED <<n_interp, hiddens_array, hiddens_ndim, row1, row2, i, interpolated_rows,
                   interpolated_hiddens, interpolated_hiddens_json, molecules,
                   legends, grid>>
    /\ UNCHANGED <<dedup_vars, tanimoto_vars, embed_vars>>

\* loop head and the first half of the body: the next parameter value is
\* taken, the request is built and POSTed, the call returns or raises
SweepPost ==
    /\ cell = "post"
    /\ next_param <= Len(Params)
    /\ \E reply \in (IF sweep = "sampling" THEN SamplingReplies ELSE GenerateReplies) :
        /\ posts' = Append(posts, [url     |-> RequestData(Params[next_param]).url,
                                   headers |-> sweep_headers,
                                   data    |-> RequestData(Params[next_param]).data,
                                   reply   |-> reply])
        /\ IF reply.transport # "ok" THEN
               /\ Fail("ConnectionError")
               /\ UNCHANGED response
           ELSE
               /\ response' = reply
               /\ cell' = "handle"
               /\ UNCHANGED error
    /\ UNCHANGED <<radii, min_sims, sweep, next_param, results, df>>
    /\ UNCHANGED <<n_interp, hiddens_array, hiddens_ndim, row1, row2, i, interpolated_rows,
                   interpolated_hiddens, interpolated_hiddens_json, molecules,
                   legends, grid>>
    /\ UNCHANGED <<dedup_vars, tanimoto_vars, embed_vars>>

\* the rest of the body: json.loads, ['generated'], filter, score, average,
\* results[param] = record
SweepHandle ==
    /\ cell = "handle"
    /\ IF ~response.is_json THEN
           /\ Fail("JSONDecodeError")
           /\ UNCHANGED <<results, next_param>>
       ELSE IF response.key # "generated" THEN
           /\ Fail("KeyError")
           /\ UNCHANGED <<results, next_param>>
       ELSE IF sweep = "sampling" /\ response.value = <<>> THEN
           /\ Fail("IndexError")
           /\ UNCHANGED <<results, next_param>>
       ELSE IF Scores(valid_smiles(GeneratedMolecules(response.value)), "tanimoto").raised # "none" THEN
           /\ Fail(Scores(valid_smiles(GeneratedMolecules(response.value)), "tanimoto").raised)
           /\ UNCHANGED <<results, next_param>>
       ELSE
           /\ results' = DictSet(results, Params[next_param],
                                 IterationRecord(GeneratedMolecules(response.value)))
           /\ next_param' = next_param + 1
           /\ cell' = "post"
           /\ UNCHANGED error
    /\ UNCHANGED <<radii, min_sims, sweep, response, df>>
    /\ UNCHANGED <<posts, n_interp, hiddens_array, hiddens_ndim, row1, row2, i, interpolated_rows,
                   interpolated_hiddens, interpolated_hiddens_json, molecules,
                   legends, grid>>
    /\ UNCHANGED <<dedup_vars, tanimoto_vars, embed_vars>>

\* after the loop: df = pd.DataFrame(results).T.reset_index()
SweepTable ==
    /\ cell = "post"
    /\ next_param > Len(Params)
    /\ df' = DataFrameT(results)
    /\ cell' = IF sweep = "sampling" THEN "guided_setup" ELSE "done"
    /\ UNCHANGED <<radii, min_sims, sweep, next_param, response, results>>
    /\ UNCHANGED <<error, posts, n_interp, hiddens_array, hiddens_ndim, row1, row2, i,
                   interpolated_rows, interpolated_hiddens,
                   interpolated_hiddens_json, molecules, legends, grid>>
    /\ UNCHANGED <<dedup_vars, tanimoto_vars, embed_vars>>

\* the cell before the guided sweep: results = {} and min_sims
GuidedSetupCell ==
    /\ cell = "guided_setup"
    /\ results' = <<>>
    /\ sweep' = "guided"
    /\ next_param' = 1
    /\ cell' = "post"
    /\ UNCHANGED <<radii, min_sims, response, df>>
    /\ UNCHANGED <<error, posts, n_interp, hiddens_array, hiddens_ndim, row1, row2, i,
                   interpolated_rows, interpolated_hiddens,
                   interpolated_hiddens_json, molecules, legends, grid>>
    /\ UNCHANGED <<dedup_vars, tanimoto_vars, embed_vars>>

(***************************************************************************)
(* 1-ClusterMolMIMEmbeddings.ipynb                                          *)
(***************************************************************************)
\* the molecules whose embeddings are asked for
embedding_molecules ==
    <<"CC[C@@H](OC)[C@H](Cl)C(=O)N1CCCCC1",
       "C[C@H]([C@@H](C)O)S(=O)(=O)CC(=O)N1CCC1",
       "CCOC(=O)C1CCN(C(=O)[C@@H](N)C[C@H](C)CC)CC1",
       "CCN1CCN(C(=O)[C@H](C)N2C[C@@H](C)[S@+]([O-])[C@@H](C)C2)CC1",
       "C[C@H](CC(N)=O)C(=O)N1CCCN(C(=O)CN2CCC[C@H]2C)CC1",
       "CCC1(NCCC[C@H](C)O)CCN(C(=O)CC2(O)CCC2)CC1",
       "CCOC(=O)[C@@H]1CCCN(C(=O)CN(C)[C@@H](C)C(=O)N2CCC[C@@H](C(=O)OCC)C2)C1",
       "NC(=O)C[C@@H](N)C(=O)N1CCN(C(=O)CN2CCCC2)CC1",
       "COC(=O)C[C@H](N)C(=O)N1CC[C@H](C(=O)OC)[C@H](C)C1",
       "C[C@H](NC[C@@H]1[C@@H]2CCC[C@@H]21)C(=O)N1CCCCC1",
       "CCN(CC(F)(F)F)C(=O)[C@@H]1CCCN(C(=O)[C@H](C)C(C)C)C1",
       "CO[C@@H](C)C(=O)N1CCC(C)(C(N)=S)CC1",
       "CN(C)C[C@@H](N)COCCC(=O)N1CCCCC1",
       "CON(CC1CC1)C(=O)N1CC[C@@H](C(N)=S)C1",
       "CC(C)N1CCN(C2CN(C(=O)[C@@]3(N)C[C@@H]3C)C2)CC1",
       "CCNC(=O)CC(=O)O[C@@H](C)C(=O)N1CCC[C@H](C(=O)OCC)C1",
       "CCN(CCC(N)=S)[C@@H](C)C(=O)N1CCCCCC1",
       "CC(C)[C@@H](O)CN1CC[C@H](C(=O)N(C)C)C1",
       "CC(C)C[C@@H](N)CC(=O)N1CCOC[C@@H](CO)C1",
       "C[C@H](N)[C@@H](C)C(=O)CC1CCCC1",
       "CCCC[C@H](C)N(CCCC)C(=O)[C@H]1CCCN(C(=O)[C@@H](C)CC)C1",
       "C=C(C)CCNC[C@@H](C)N(C)C(=O)[C@@H]1CCCN(C(C)=O)C1",
       "CCC(CC)CC(=O)O[C@@H](C(=O)N1CCC[C@@H](C(N)=O)C1)C(C)C",
       "C[C@@H](C(=O)N1CCN(C(=O)C(=O)N2CCCC2)CC1)C(F)(F)F",
       "CCC(CC)[S@@+]([O-])[C@@H](C)C(=O)N1CCC(C)CC1">>

\* a faulty variant of Extracted: a missing key yields the empty list
ExtractedOrEmpty(reply, key) ==
    IF ~reply.is_json THEN Raise("JSONDecodeError")
    ELSE IF reply.key # key THEN Return(<<>>)
    ELSE Return(reply.value)

\* json.loads(response.text)[key]
Extracted(reply, key) ==
    IF ~reply.is_json THEN Raise("JSONDecodeError")
    ELSE IF reply.key # key THEN Raise("KeyError")
    ELSE Return(reply.value)

\* pd.DataFrame(rows) of a list of lists: columns labelled 0, 1, ...
DataFrameOfRows(rows) ==
    [r \in 1..Len(rows) |-> [c \in 0..(Len(rows[r]) - 1) |-> rows[r][c + 1]]]

\* the lists of embeddings the service answers with
EmbeddingLists ==
    {<<>>} \cup {<<a>> : a \in Vectors} \cup {<<a, b>> : a \in Vectors, b \in Vectors}

\* replies of POST /embedding
EmbeddingReplies ==
    Failures \cup {Json(s, "embeddings", e) : s \in {200, 500}, e \in EmbeddingLists}

\* cell 3: POST /embedding, json.loads(response.text)["embeddings"], DataFrame
EmbeddingCell ==
    /\ cell = "embedding"
    /\ \E reply \in EmbeddingReplies :
        /\ posts' = Append(posts, [url |-> "/embedding", headers |-> headers,
                                   data |-> [sequences |-> embedding_molecules],
                                   reply |-> reply])
        /\ IF reply.transport # "ok" THEN
               /\ Fail("ConnectionError")
               /\ UNCHANGED <<embeddings, embedding_df>>
           ELSE IF Extracted(reply, "embeddings").raised # "none" THEN
               /\ Fail(Extracted(reply, "embeddings").raised)
               /\ UNCHANGED <<embeddings, embedding_df>>
           ELSE
               /\ embeddings' = Extracted(reply, "embeddings").value
               /\ embedding_df' = DataFrameOfRows(embeddings')
               /\ cell' = "cluster"
               /\ UNCHANGED error
    /\ UNCHANGED clustermap
    /\ UNCHANGED <<n_interp, hiddens_array, hiddens_ndim, row1, row2, i, interpolated_rows,
                   interpolated_hiddens, interpolated_hiddens_json, molecules,
                   legends, grid>>
    /\ UNCHANGED <<dedup_vars, sweep_vars, tanimoto_vars>>

\* cell 4: sns.clustermap(df, method="ward", ...): the rows are clustered,
\* which takes two rows or more
ClusterCell ==
    /\ cell = "cluster"
    /\ IF Len(embedding_df) < 2 THEN
           /\ Fail("ValueError")
           /\ UNCHANGED clustermap
       ELSE
           /\ clustermap' = [data |-> embedding_df, method |-> "ward"]
           /\ cell' = "done"
           /\ UNCHANGED error
    /\ UNCHANGED <<embeddings, embedding_df>>
    /\ UNCHANGED <<posts, n_interp, hiddens_array, hiddens_ndim, row1, row2, i, interpolated_rows,
                   interpolated_hiddens, interpolated_hiddens_json, molecules,
                   legends, grid>>
    /\ UNCHANGED <<dedup_vars, sweep_vars, tanimoto_vars>>

(***************************************************************************)
(* The specifications.                                                      *)
(***************************************************************************)
IdleInterp ==
    /\ n_interp = 0
    /\ hiddens_array = <<>>
    /\ hiddens_ndim = 0
    /\ row1 = <<>>
    /\ row2 = <<>>
    /\ i = 0
    /\ interpolated_rows = <<>>
    /\ interpolated_hiddens = <<>>
    /\ interpolated_hiddens_json = [hiddens |-> <<>>, mask |-> <<>>]
    /\ molecules = <<>>
    /\ legends = <<>>
    /\ grid = [mols |-> <<>>, legends |-> <<>>]

IdleDedup ==
    /\ generated = <<>>
    /\ deduplicated = <<>>
    /\ dedup_done = FALSE

IdleSweep ==
    /\ radii = <<>>
    /\ min_sims = <<>>
    /\ sweep = "sampling"
    /\ next_param = 1
    /\ response = Refused
    /\ results = <<>>
    /\ df = <<>>

IdleTanimoto ==
    /\ smiles_arg = upadacitinib
    /\ reference_arg = upadacitinib
    /\ returned = Return(0)
    /\ called = FALSE

IdleEmbed ==
    /\ embeddings = <<>>
    /\ embedding_df = <<>>
    /\ clustermap = [data |-> <<>>, method |-> "none"]

\* notebook 2 after its set-up cells, for some interpolation count
InitInterp ==
    /\ cell = "hidden"
    /\ error = "none"
    /\ posts = <<>>
    /\ n_interp \in -1..MaxInterp
    /\ hiddens_array = <<>>
    /\ hiddens_ndim = 0
    /\ row1 = <<>>
    /\ row2 = <<>>
    /\ i = 0
    /\ interpolated_rows = <<>>
    /\ interpolated_hiddens = <<>>
    /\ interpolated_hiddens_json = [hiddens |-> <<>>, mask |-> <<>>]
    /\ molecules = <<>>
    /\ legends = <<>>
    /\ grid = [mols |-> <<>>, legends |-> <<>>]
    /\ IdleDedup
    /\ IdleSweep
    /\ IdleTanimoto
    /\ IdleEmbed

NextInterp ==
    \/ HiddenCell
    \/ InterpolateCell
    \/ LoopBody
    \/ LoopExit
    \/ DecodeCell
    \/ DrawCell

SpecInterp == InitInterp /\ [][NextInterp]_vars

\* any decoded list, about to be deduplicated
InitDedup ==
    /\ cell = "idle"
    /\ error = "none"
    /\ posts = <<>>
    /\ IdleInterp
    /\ generated \in DecodedLists
    /\ deduplicated = <<>>
    /\ dedup_done = FALSE
    /\ IdleSweep
    /\ IdleTanimoto
    /\ IdleEmbed

NextDedup == Deduplicate

SpecDedup == InitDedup /\ [][NextDedup]_vars

\* notebook 3 after the cell that sets radii and results = {}
InitSweep ==
    /\ cell = "post"
    /\ error = "none"
    /\ posts = <<>>
    /\ IdleInterp
    /\ IdleDedup
    /\ radii \in ParamLists
    /\ min_sims \in ParamLists
    /\ sweep = "sampling"
    /\ next_param = 1
    /\ response = Refused
    /\ results = <<>>
    /\ df = <<>>
    /\ IdleTanimoto
    /\ IdleEmbed

NextSweep ==
    \/ SweepPost
    \/ SweepHandle
    \/ SweepTable
    \/ GuidedSetupCell

SpecSweep == InitSweep /\ [][NextSweep]_vars

\* any call tanimoto_similarity(smiles, reference)
InitTanimoto ==
    /\ cell = "idle"
    /\ error = "none"
    /\ posts = <<>>
    /\ IdleInterp
    /\ IdleDedup
    /\ IdleSweep
    /\ smiles_arg \in Smiles
    /\ reference_arg \in Smiles
    /\ returned = Return(0)
    /\ called = FALSE
    /\ IdleEmbed

NextTanimoto == CallTanimoto

SpecTanimoto == InitTanimoto /\ [][NextTanimoto]_vars

\* notebook 1 after its set-up cells
InitEmbed ==
    /\ cell = "embedding"
    /\ error = "none"
    /\ posts = <<>>
    /\ IdleInterp
    /\ IdleDedup
    /\ IdleSweep
    /\ IdleTanimoto
    /\ IdleEmbed

NextEmbed ==
    \/ EmbeddingCell
    \/ ClusterCell

SpecEmbed == InitEmbed /\ [][NextEmbed]_vars

(***************************************************************************)
(* Properties of the interpolation notebook.                                *)
(***************************************************************************)
\* the for loop of cell 4 has run to its end
LoopFinished == cell \in {"decode", "draw", "done"}

\* C1: for every count n >= 2 and end points A, B the interpolation step
\* leaves exactly n vectors, in order, and element i (0 <= i <= n-1) is
\* (1 - t) * A + t * B with t = i / (n - 1), evaluated in floating point.
InterpolationContract ==
    /\ (LoopFinished /\ n_interp >= 2) => Len(interpolated_rows) = n_interp
    /\ (LoopFinished /\ n_interp >= 2 /\ hiddens_ndim = 2) =>
        \A j \in 0..(n_interp - 1) :
               /\ Len(interpolated_rows[j + 1]) = HiddenDim
               /\ \A k \in 1..HiddenDim :
                      LET t == IntTrueDiv(j, n_interp - 1)
                      IN  interpolated_rows[j + 1][k] =
                              FAdd(FMul(FSub(One, t), row1[k]), FMul(t, row2[k]))
    /\ (LoopFinished /\ n_interp >= 2 /\ hiddens_ndim = 1) =>
        \A j \in 0..(n_interp - 1) :
               LET t == IntTrueDiv(j, n_interp - 1)
               IN  interpolated_rows[j + 1] =
                       FAdd(FMul(FSub(One, t), row1), FMul(t, row2))

\* a finished interpolation of three or more vectors between distinct rows
InterpolationRan ==
    /\ LoopFinished
    /\ hiddens_ndim = 2
    /\ n_interp >= 3
    /\ row1 # row2
    /\ Len(interpolated_rows) = n_interp
    /\ interpolated_rows[2] # row1

\* C2: for every n >= 2 the first interpolated vector equals A and the
\* last one (index n-1) equals B.
EndpointsExact ==
    (LoopFinished /\ n_interp >= 2) =>
        /\ interpolated_rows[1] = row1
        /\ interpolated_rows[n_interp] = row2

\* a finished interpolation whose end points differ in every component
EndpointsReached ==
    /\ cell = "done"
    /\ hiddens_ndim = 2
    /\ n_interp >= 2
    /\ \A k \in 1..HiddenDim : row1[k] # row2[k]
    /\ interpolated_rows[1] = row1
    /\ interpolated_rows[n_interp] = row2

\* C3: for every n >= 2 and every component k the k-th components of the
\* interpolated vectors go monotonically from A[k] to B[k] and stay between
\* A[k] and B[k].
ComponentwiseMonotone ==
    (LoopFinished /\ n_interp >= 2 /\ hiddens_ndim = 2) =>
        \A k \in 1..HiddenDim :
            /\ \A j \in 1..n_interp :
                   \/ row1[k] <= interpolated_rows[j][k] /\ interpolated_rows[j][k] <= row2[k]
                   \/ row2[k] <= interpolated_rows[j][k] /\ interpolated_rows[j][k] <= row1[k]
            /\ row1[k] <= row2[k] =>
                   \A j \in 1..(n_interp - 1) :
                       interpolated_rows[j][k] <= interpolated_rows[j + 1][k]
            /\ row1[k] >= row2[k] =>
                   \A j \in 1..(n_interp - 1) :
                       interpolated_rows[j][k] >= interpolated_rows[j + 1][k]

\* C4: a count n < 2 is rejected with DegenerateInputError: the step never
\* ends in a division by zero, never returns a batch and never goes on to
\* the decode request.
DegenerateCountRejected ==
    n_interp < 2 =>
        /\ ~LoopFinished
        /\ \A p \in 1..Len(posts) : posts[p].url # "/decode"
        /\ (cell = "failed" /\ hiddens_ndim = 2) => error = "DegenerateInputError"

(***************************************************************************)
(* Properties of the deduplication.                                         *)
(***************************************************************************)
\* position of the first occurrence of x in s
FirstIndex(s, x) ==
    CHOOSE j \in 1..Len(s) : s[j] = x /\ \A m \in 1..(j - 1) : s[m] # x

\* C5: deduplication is stable: the output holds each distinct string of
\* the input exactly once, in the order of the first occurrences, so that
\* [a,b,a,c,b] gives [a,b,c].
DedupStable ==
    dedup_done =>
        /\ {deduplicated[p] : p \in 1..Len(deduplicated)} =
               {generated[q] : q \in 1..Len(generated)}
        /\ \A p, q \in 1..Len(deduplicated) :
               p # q => deduplicated[p] # deduplicated[q]
        /\ \A p, q \in 1..Len(deduplicated) :
               p < q => FirstIndex(generated, deduplicated[p])
                            < FirstIndex(generated, deduplicated[q])
        /\ generated = <<"CCO", "CCN", "CCO", "CCC", "CCN">> =>
               deduplicated = <<"CCO", "CCN", "CCC">>

\* the list [a,b,a,c,b] has been deduplicated
DedupExample ==
    /\ dedup_done
    /\ generated = <<"CCO", "CCN", "CCO", "CCC", "CCN">>
    /\ Len(deduplicated) = Cardinality(DecodedAlphabet)

(***************************************************************************)
(* Properties of the sweeps.                                                *)
(***************************************************************************)
\* the endpoint of the sweep being run
SweepUrl == IF sweep = "sampling" THEN "/sampling" ELSE "/generate"

\* the POST p got a JSON body with the key "generated"
Answered(p) ==
    /\ p.reply.transport = "ok"
    /\ p.reply.is_json
    /\ p.reply.key = "generated"

\* the SMILES strings an answered POST got back
SmilesIn(p) ==
    IF p.url = "/sampling" THEN p.reply.value[1]
    ELSE [j \in 1..Len(p.reply.value) |-> p.reply.value[j].smiles]

\* the parameter value a POST was made for
ParamOf(p) ==
    IF p.url = "/sampling" THEN p.data.scaled_radius ELSE p.data.min_similarity

\* the POSTs of the sweep being run whose handling is over
Handled ==
    {p \in 1..Len(posts) :
        /\ posts[p].url = SweepUrl
        /\ p < Len(posts) \/ cell \notin {"handle", "failed"}}

\* the position in posts of the POST a record of results came from
PostOf(item) ==
    CHOOSE p \in 1..Len(posts) :
        posts[p].url = SweepUrl /\ ParamOf(posts[p]) = item.key

\* how many strings of g parse
NumParseable(g) == Cardinality({j \in 1..Len(g) : Parses(g[j])})

\* similarity to the reference molecule, radius 2 and 2048 bits
SimilarityToReference(s) ==
    TanimotoCoefficient(MorganFingerprint(s, 2, 2048),
                        MorganFingerprint(upadacitinib, 2, 2048))

\* C6: in both sweeps the count_valid (valid_smiles) recorded for an
\* iteration is the number of SMILES strings of that iteration's response
\* that parse.
CountValidMatchesResponse ==
    \A r \in 1..Len(results) :
        /\ \E p \in 1..Len(posts) :
               posts[p].url = SweepUrl /\ ParamOf(posts[p]) = results[r].key
        /\ Answered(posts[PostOf(results[r])])
        /\ results[r].value.valid_smiles =
               NumParseable(SmilesIn(posts[PostOf(results[r])]))

\* the guided sweep has counted 2 valid strings out of 3, after a sampling
\* sweep that recorded a response without any valid string
CountedInBothSweeps ==
    /\ sweep = "guided"
    /\ \E r \in 1..Len(results) :
           /\ results[r].value.valid_smiles = 2
           /\ Len(SmilesIn(posts[PostOf(results[r])])) = 3
    /\ \E d \in 1..Len(df) : df[d].valid_smiles = 0

\* C7: a parameter value whose response holds no parseable SMILES gets a
\* record whose mean similarity and mean QED are the missing value, never
\* 0, and the sweep goes on: the value is recorded and the run does not fail.
MissingMeansWhenNoneValid ==
    /\ \A p \in Handled :
           (Answered(posts[p]) /\ NumParseable(SmilesIn(posts[p])) = 0) =>
               \E r \in 1..Len(results) :
                   /\ results[r].key = ParamOf(posts[p])
                   /\ results[r].value.valid_smiles = 0
                   /\ results[r].value.tanimoto_similarity.nan
                   /\ results[r].value.qed_score.nan
                   /\ results[r].value.tanimoto_similarity # Float(0)
                   /\ results[r].value.qed_score # Float(0)
    /\ \A d \in 1..Len(df) :
           df[d].valid_smiles = 0 =>
               df[d].tanimoto_similarity.nan /\ df[d].qed_score.nan
    /\ (cell = "failed" /\ posts # <<>>) => ~Answered(posts[Len(posts)])

\* a finished notebook whose last table starts with a row of missing means
\* and goes on with a row of numbers
SweepWentOnAfterNoneValid ==
    /\ cell = "done"
    /\ Len(df) >= 2
    /\ df[1].valid_smiles = 0
    /\ df[1].qed_score.nan
    /\ ~df[2].qed_score.nan

\* C8: the recorded mean similarity and mean QED are the arithmetic means
\* over exactly the parseable SMILES of the iteration's response: each
\* parseable string gives one similarity and one QED score, an unparseable
\* one gives nothing.
MeansOverParseableOnly ==
    \A r \in 1..Len(results) :
        LET g  == SmilesIn(posts[PostOf(results[r])])
            ps == SelectSeq(g, Parses)
            n  == Len(ps)
        IN  n > 0 =>
              /\ results[r].value.tanimoto_similarity =
                     Float(Round(Total([j \in 1..n |-> SimilarityToReference(ps[j])]), n))
              /\ results[r].value.qed_score =
                     Float(Round(Total([j \in 1..n |-> Qed(ps[j])]), n))

\* a record made from a response with parseable and unparseable strings
MixedResponseAveraged ==
    \E r \in 1..Len(results) :
        LET g == SmilesIn(posts[PostOf(results[r])])
        IN  /\ 0 < NumParseable(g)
            /\ NumParseable(g) < Len(g)
            /\ ~results[r].value.tanimoto_similarity.nan
            /\ results[r].value.tanimoto_similarity.val > 0

\* the parameter values of the rows of a table
IndexColumn(t) == [d \in 1..Len(t) |-> t[d].index]

\* C9: the results hold one record per parameter value in the order the
\* values were given, and the table built after the sweep lists the
\* parameter values in that same order (not sorted).
RecordsInInputOrder ==
    /\ [r \in 1..Len(results) |-> results[r].key] = SubSeq(Params, 1, next_param - 1)
    /\ (cell = "post" /\ next_param > Len(Params)) =>
           [r \in 1..Len(results) |-> results[r].key] = Params
    /\ cell = "done" => IndexColumn(df) = min_sims
    /\ (cell = "guided_setup" \/ (sweep = "guided" /\ cell # "done")) =>
           IndexColumn(df) = radii

\* a final table whose parameter values are not in ascending order
UnsortedTableBuilt ==
    /\ cell = "done"
    /\ Len(df) >= 2
    /\ df[1].index > df[2].index

(***************************************************************************)
(* Properties of tanimoto_similarity.                                       *)
(***************************************************************************)
\* C10: for a candidate that does not parse and a valid reference,
\* tanimoto_similarity returns 0 and raises nothing.
UnparseableCandidateGivesZero ==
    (called /\ Parses(reference_arg) /\ ~Parses(smiles_arg)) =>
        /\ returned.raised = "none"
        /\ returned.value = 0

\* tanimoto_similarity has been called with a string that does not parse
UnparseableCandidateTried ==
    /\ called
    /\ smiles_arg \in UnparseableSmiles
    /\ reference_arg = upadacitinib
    /\ returned = Return(0)

\* C11: tanimoto_similarity(s, s) is 1.0 for every SMILES s that parses, and
\* for any two parseable strings the result is the Tanimoto coefficient of
\* their fingerprints of the same radius 2 and the same length 2048.
SelfSimilarityIsOne ==
    /\ (called /\ Parses(smiles_arg) /\ reference_arg = smiles_arg) =>
           returned = Return(One)
    /\ (called /\ Parses(smiles_arg) /\ Parses(reference_arg)) =>
           returned = Return(TanimotoCoefficient(
                                 MorganFingerprint(smiles_arg, 2, 2048),
                                 MorganFingerprint(reference_arg, 2, 2048)))

\* the reference molecule has been compared with itself
SelfSimilarityTried ==
    /\ called
    /\ smiles_arg = upadacitinib
    /\ reference_arg = upadacitinib
    /\ returned = Return(One)

(***************************************************************************)
(* Properties of the service calls.                                         *)
(***************************************************************************)
\* the class of the error taxonomy a Python exception belongs to
ErrorClass(e) ==
    CASE e = "ConnectionError"            -> "TransportError"
      [] e = "JSONDecodeError"            -> "ServiceError"
      [] e = "HTTPError"                  -> "ServiceError"
      [] e \in {"KeyError", "IndexError"} -> "SchemaError"
      [] e = "ArgumentError"              -> "ChemistryError"
      [] OTHER                            -> e

\* a response that arrived with a failure status or a body that is not JSON
BadResponse(reply) ==
    /\ reply.transport = "ok"
    /\ reply.status \notin 200..299 \/ ~reply.is_json

\* C12: a response with a non-2xx status or a body that is not valid JSON
\* makes the call fail with a ServiceError: nothing is extracted from it, no
\* table is built from it and nothing else is done with it.
BadResponseIsServiceError ==
    \A p \in 1..Len(posts) :
        BadResponse(posts[p].reply) =>
            /\ p = Len(posts)
            /\ cell = "failed"
            /\ ErrorClass(error) = "ServiceError"
            /\ embeddings = <<>>
            /\ embedding_df = <<>>
            /\ clustermap.data = <<>>

\* C13: every POST, on each of /embedding, /hidden, /decode, /sampling and
\* /generate, is sent with both Accept: application/json and
\* Content-Type: application/json.
BothHeadersOnEveryPost ==
    \A p \in 1..Len(posts) :
        /\ <<"accept", "application/json">> \in SentHeaders(posts[p].headers)
        /\ <<"Content-Type", "application/json">> \in SentHeaders(posts[p].headers)

(***************************************************************************)
(* Properties of the hidden-state extraction and the decode request.        *)
(***************************************************************************)
\* the POST p got a JSON body with the key "hiddens"
HiddensAnswered(p) ==
    /\ p.url = "/hidden"
    /\ p.reply.transport = "ok"
    /\ p.reply.is_json
    /\ p.reply.key = "hiddens"

\* C14: a response with fewer or more than 2 hidden-state rows fails with a
\* SchemaError, and no interpolation is run on it.
TwoRowsOrSchemaError ==
    \A p \in 1..Len(posts) :
        (HiddensAnswered(posts[p]) /\ Len(posts[p].reply.value) # 2) =>
            /\ cell = "failed"
            /\ ErrorClass(error) = "SchemaError"
            /\ interpolated_rows = <<>>
            /\ Len(posts) = 1

\* the key each endpoint's response is expected to hold
ExpectedKey(url) ==
    CASE url = "/embedding" -> "embeddings"
      [] url = "/hidden"    -> "hiddens"
      [] OTHER              -> "generated"

\* the POST p got a JSON body without the key expected of its endpoint
KeyMissing(p) ==
    /\ p.reply.transport = "ok"
    /\ p.reply.is_json
    /\ p.reply.key # ExpectedKey(p.url)

DecodeRequestShape ==
    \A p \in 1..Len(posts) :
        (posts[p].url = "/decode" /\ hiddens_ndim = 2) =>
            LET h == posts[p].data.hiddens
                m == posts[p].data.mask
                n == Len(interpolated_rows)
            IN  /\ posts[p].data = interpolated_hiddens_json
                /\ Len(h) = n
                /\ \A r \in 1..n :
                       /\ Len(h[r]) = 1
                       /\ Len(h[r][1]) = HiddenDim
                       /\ h[r][1] = interpolated_rows[r]
                /\ Len(m) = n
                /\ \A r \in 1..n : m[r] = <<TRUE>>

\* a decode request was sent for three vectors interpolated between two
\* distinct rows
DecodeRequestSent ==
    /\ Len(posts) = 2
    /\ posts[2].url = "/decode"
    /\ hiddens_ndim = 2
    /\ row1 # row2
    /\ n_interp = 3
    /\ Len(posts[2].data.hiddens) = 3
    /\ posts[2].data.mask = <<<<TRUE>>, <<TRUE>>, <<TRUE>>>>

\* C19: for every decoded response the display list is the first end point,
\* then the distinct decoded strings in order of first occurrence, then the
\* second end point - also when the decoded list holds an end point itself;
\* the legends are as many as the molecules, the interior ones numbered
\* 1..k for the k distinct decoded strings; the grid is drawn from both.
DisplayListFramed ==
    cell \in {"draw", "done"} =>
        LET g == posts[Len(posts)].reply.value
            k == Cardinality({g[q] : q \in 1..Len(g)})
        IN  /\ posts[Len(posts)].url = "/decode"
            /\ Len(molecules) = k + 2
            /\ molecules[1] = momelotinib
            /\ molecules[k + 2] = gandotinib
            /\ {molecules[j + 1] : j \in 1..k} = {g[q] : q \in 1..Len(g)}
            /\ \A a, b \in 1..k :
                   a < b => FirstIndex(g, molecules[a + 1]) < FirstIndex(g, molecules[b + 1])
            /\ Len(legends) = Len(molecules)
            /\ legends[1] = "momelotinib"
            /\ legends[k + 2] = "gandotinib"
            /\ \A j \in 1..k : legends[j + 1] = <<"Interpolated Molecule #", j>>
            /\ cell = "done" => grid = [mols |-> molecules, legends |-> legends]

\* the grid was drawn for a decoded list that held both end points
EndpointsAlsoDecoded ==
    /\ cell = "done"
    /\ grid.mols = <<momelotinib, momelotinib, "CCO", gandotinib, gandotinib>>
    /\ Len(grid.legends) = 5
    /\ grid.legends[4] = <<"Interpolated Molecule #", 3>>

(***************************************************************************)
(* Properties of a sweep that fails, and of the order of its steps.         *)
(***************************************************************************)
\* the POSTs of the sweep being run, as positions in posts
SweepPosts == {p \in 1..Len(posts) : posts[p].url = SweepUrl}

\* the run stopped at iteration next_param of the sweep being run: that
\* iteration's POST is the last one and no table was built for this sweep
AbortedAtIteration ==
    /\ Cardinality(SweepPosts) = next_param
    /\ posts[Len(posts)].url = SweepUrl
    /\ ParamOf(posts[Len(posts)]) = Params[next_param]
    /\ ~ENABLED NextSweep
    /\ sweep = "sampling" => df = <<>>
    /\ sweep = "guided" => IndexColumn(df) = radii

\* C16 as stated: an error at iteration k aborts the step - no request for a
\* later value, no table - and the records of the iterations before k are
\* not kept.
AbortLosesEarlierRecords ==
    cell = "failed" => (AbortedAtIteration /\ results = <<>>)

\* C16, amended: an error at iteration k aborts the step - no request for a
\* later value, no table for this sweep - while the records of the
\* iterations before k stay in results, one per earlier value, in order.
AbortKeepsEarlierRecords ==
    cell = "failed" =>
        /\ AbortedAtIteration
        /\ [r \in 1..Len(results) |-> results[r].key] = SubSeq(Params, 1, next_param - 1)
        /\ \A r \in 1..Len(results) :
               /\ Answered(posts[Len(posts) - next_param + r])
               /\ results[r].value.valid_smiles =
                      NumParseable(SmilesIn(posts[Len(posts) - next_param + r]))

\* the guided sweep failed at its second iteration, after the table of the
\* sampling sweep was built
GuidedSweepAborted ==
    /\ cell = "failed"
    /\ sweep = "guided"
    /\ next_param = 2
    /\ Len(results) = 1
    /\ df # <<>>

IsSamplingPost(p) == p.url = "/sampling"
IsGeneratePost(p) == p.url = "/generate"

\* the parameter values of a sequence of POSTs
ParamsOf(ps) == [j \in 1..Len(ps) |-> ParamOf(ps[j])]

\* C18: the sweeps run sequentially and without retry: the POSTs go out in
\* the order of the parameter values, one per value; a POST is made only
\* when the response of every earlier one was received and its record
\* stored; a call that failed is the last one made.
OnePostPerValueInTurn ==
    LET sp  == SelectSeq(posts, IsSamplingPost)
        gp  == SelectSeq(posts, IsGeneratePost)
        cur == IF sweep = "sampling" THEN sp ELSE gp
    IN  /\ posts = sp \o gp
        /\ ParamsOf(sp) = SubSeq(radii, 1, Len(sp))
        /\ ParamsOf(gp) = SubSeq(min_sims, 1, Len(gp))
        /\ gp # <<>> => Len(sp) = Len(radii)
        /\ sweep = "sampling" => gp = <<>>
        /\ cell \in {"handle", "failed"} => Len(cur) = Len(results) + 1
        /\ cell \notin {"handle", "failed"} => Len(cur) = Len(results)
        /\ ParamsOf(SubSeq(cur, 1, Len(results))) =
               [r \in 1..Len(results) |-> results[r].key]
        /\ \A p \in 1..(Len(posts) - 1) : Answered(posts[p])
        /\ cell = "failed" => ~ENABLED NextSweep
        /\ cell = "done" => ParamsOf(sp) = radii /\ ParamsOf(gp) = min_sims

\* both sweeps ran to their end over two values each
BothSweepsPosted ==
    /\ cell = "done"
    /\ Len(radii) = 2
    /\ Len(min_sims) = 2
    /\ Len(posts) = 4
    /\ Len(results) = 2

\* the record an answered POST gives rise to, computed from that POST alone
RecordOf(p) ==
    [key |-> ParamOf(p), value |-> IterationRecord(SmilesIn(p))]

\* C20: the iterations of a sweep are independent: a step that changes
\* results either stores one record, computed from the response of the POST
\* just made and from nothing else, and leaves every record stored before as
\* it was, or it is the reset before the guided sweep; and after any such
\* step of the guided sweep every record held comes from a POST /generate.
IterationsIndependent ==
    [][results' # results =>
           /\ \/ /\ cell = "handle"
                 /\ Len(results') = Len(results) + 1
                 /\ \A r \in 1..Len(results) : results'[r] = results[r]
                 /\ results'[Len(results')] = RecordOf(posts[Len(posts)])
              \/ /\ cell = "guided_setup"
                 /\ sweep' = "guided"
                 /\ results' = <<>>
           /\ sweep' = "guided" =>
                 /\ Len(results') <= Len(posts') - Len(radii)
                 /\ \A r \in 1..Len(results') :
                        /\ posts'[Len(radii) + r].url = "/generate"
                        /\ Answered(posts'[Len(radii) + r])
                        /\ results'[r] = RecordOf(posts'[Len(radii) + r])
      ]_vars

\* the guided sweep holds two different records, after a sampling sweep
\* whose table has two rows
TwoGuidedRecordsStored ==
    /\ sweep = "guided"
    /\ Len(results) = 2
    /\ results[1].value # results[2].value
    /\ Len(df) = 2
    /\ df[1].valid_smiles # results[1].value.valid_smiles

====
